---- MODULE Spec2Model ----
(***************************************************************************)
(* A model of real-income (src/src/main.rs): the disk cache in front of    *)
(* the four remote resources, the cache-key derivation, the two XML        *)
(* extraction loops, the selection of the start and latest observation,    *)
(* the period functions and the two run modes.                             *)
(*                                                                         *)
(* Strings the program inspects character by character are sequences of   *)
(* one-character strings; file contents are sequences of blocks.           *)
(***************************************************************************)
EXTENDS Integers, Sequences, FiniteSets, TLC

VARIABLES
    procs,   \* cache model: one record per process (one invocation of a load)
    cache,   \* cache model: cache directory, file name -> entry
    keyq,    \* key model: two queries and the cache files derived for them
    xml,     \* extraction model: one run of an extraction loop over a document
    per,     \* period model: one text and what the period functions make of it
    run      \* run model: one invocation of run_sdmx or run_datamapper

vars == <<procs, cache, keyq, xml, per, run>>

(***************************************************************************)
(* Bounds of the model.                                                    *)
(***************************************************************************)
NProcs == 2

Procs == 1..NProcs

(***************************************************************************)
(*                         PART 1 - THE DISK CACHE                         *)
(***************************************************************************)

\* The four loads that go through the cache directory, with the file each uses.
\* The two data files are the keys of one fixed query each; the key derivation
\* itself is modelled in part 2.
Loads ==
    { [res |-> "sdmx_codelist", file |-> "sdmx_countries_iso3.xml"],
      [res |-> "sdmx_data",     file |-> "sdmx_cpi_xml_POL_CPI__T_IX_M_2020M01_2020M06.xml"],
      [res |-> "dm_countries",  file |-> "dm_countries.json"],
      [res |-> "dm_values",     file |-> "dm_PCPIPCH_POL_2020_2021.json"] }

Files == { l.file : l \in Loads }

NoLoad == [res |-> "none", file |-> "none"]

\* What the remote answers on success.  The server is outside the program: two
\* requests for the same URL may be answered differently (ver).  items is the
\* number of countries of a DataMapper country list (0: an empty object); the
\* other resources carry items = 1.
RemoteBodies(res) ==
    IF res = "dm_countries"
    THEN { [ver |-> "a", items |-> 0], [ver |-> "a", items |-> 1], [ver |-> "b", items |-> 1] }
    ELSE { [ver |-> "a", items |-> 1], [ver |-> "b", items |-> 1] }

NoBody == [ver |-> "none", items |-> 0]

\* The bytes of a payload, as the blocks one write_all call may emit one by one.
Bytes(body) == << [of |-> body, blk |-> 1], [of |-> body, blk |-> 2] >>

\* A block of a file no write has filled (a writer truncated the file under
\* another writer whose offset was already past it).
Hole == [of |-> NoBody, blk |-> 0]

AllBodies == UNION { RemoteBodies(l.res) : l \in Loads }

Complete(data) == \E b \in AllBodies : data = Bytes(b)

NoEntry == [exists |-> FALSE, data |-> <<>>]

\* fs::read(&cache_file).ok() behind `if use_cache`: the three loads that cache
\* the raw response take whatever bytes the file holds.
CacheReadIgnoringFlag(useCache, entry) ==
    IF entry.exists THEN [some |-> TRUE, data |-> entry.data]
    ELSE [some |-> FALSE, data |-> <<>>]

CacheReadInvertedFlag(useCache, entry) ==
    IF ~useCache /\ entry.exists THEN [some |-> TRUE, data |-> entry.data]
    ELSE [some |-> FALSE, data |-> <<>>]

CacheRead(useCache, entry) ==
    IF useCache /\ entry.exists THEN [some |-> TRUE, data |-> entry.data]
    ELSE [some |-> FALSE, data |-> <<>>]

\* datamapper_list_countries: the cached list is used only if the file reads,
\* deserializes as Vec<Item> (a truncated JSON array does not) and is not empty.
DmCountriesCacheRead(useCache, entry) ==
    IF useCache /\ entry.exists /\ Complete(entry.data) /\ entry.data[1].of.items > 0
    THEN [some |-> TRUE, data |-> entry.data]
    ELSE [some |-> FALSE, data |-> <<>>]

LoadRead(load, useCache, entry) ==
    IF load.res = "dm_countries" THEN DmCountriesCacheRead(useCache, entry)
    ELSE CacheRead(useCache, entry)

\* `if use_cache { let _ = fs::write(..) }` after a successful fetch.
WritesAfterFetch(useCache) == useCache

\* write_all at the writer's own offset: the file grows to hold the block.
PutBlock(data, off, blk) ==
    [ i \in 1..(IF Len(data) > off THEN Len(data) ELSE off) |->
        IF i = off THEN blk ELSE IF i <= Len(data) THEN data[i] ELSE Hole ]

IdleProc ==
    [ pc       |-> "idle",     \* idle, read, fetch, write, writing, loaded, failed
      load     |-> NoLoad,
      useCache |-> FALSE,
      fetches  |-> 0,          \* requests sent to the remote
      body     |-> NoBody,     \* the response body, once fetched
      got      |-> <<>>,       \* the bytes the rest of the run works on
      hit      |-> FALSE,      \* the load was served from the cache
      off      |-> 0,          \* blocks written so far by fs::write
      wrote    |-> "no",       \* no, ok, partial (error after truncation), failed
      io       |-> 0,          \* fs::read and fs::write calls made
      seen     |-> NoEntry,    \* history: the entry as it was when the load read it
      after    |-> {} ]        \* history: the loads that had returned when this one began

CacheIdle == [ f \in Files |-> NoEntry ]

\* The cache directory starts empty; the processes of one behaviour are
\* invocations of the same load (the claims are about loads that share a key;
\* loads of different files never touch each other's entry).
CacheInit ==
    /\ \E l \in Loads : procs = [ p \in Procs |-> [IdleProc EXCEPT !.load = l] ]
    /\ cache = CacheIdle
    /\ keyq = [pc |-> "idle"]
    /\ xml = [mode |-> "idle"]
    /\ per = [pc |-> "idle"]
    /\ run = [pc |-> "idle"]

Returned(p) == procs[p].pc \in {"loaded", "failed"}

\* A process enters the load, with --cache true or false.
Begin(p) ==
    /\ procs[p].pc = "idle"
    /\ \E uc \in BOOLEAN :
         procs' = [procs EXCEPT ![p] =
                     [@ EXCEPT !.pc = "read", !.useCache = uc,
                               !.after = { q \in Procs : Returned(q) }]]
    /\ UNCHANGED <<cache, keyq, xml, per, run>>

\* (variant) the lookup result is kept, but the load goes on to fetch and
\* rewrite the entry even when it was found.
ReadCacheThenRefresh(p) ==
    /\ procs[p].pc = "read"
    /\ LET me == procs[p]
           r  == LoadRead(me.load, me.useCache, cache[me.load.file])
       IN  procs' = [procs EXCEPT ![p] =
                       [@ EXCEPT !.pc   = "fetch",
                                 !.got  = r.data,
                                 !.hit  = r.some,
                                 !.io   = IF me.useCache THEN @ + 1 ELSE @,
                                 !.seen = IF me.useCache THEN cache[me.load.file] ELSE NoEntry]]
    /\ UNCHANGED <<cache, keyq, xml, per, run>>

\* The cache lookup that opens every load.
ReadCache(p) ==
    /\ procs[p].pc = "read"
    /\ LET me == procs[p]
           r  == LoadRead(me.load, me.useCache, cache[me.load.file])
       IN  procs' = [procs EXCEPT ![p] =
                       [@ EXCEPT !.pc   = IF r.some THEN "loaded" ELSE "fetch",
                                 !.got  = r.data,
                                 !.hit  = r.some,
                                 !.io   = IF me.useCache THEN @ + 1 ELSE @,
                                 !.seen = IF me.useCache THEN cache[me.load.file] ELSE NoEntry]]
    /\ UNCHANGED <<cache, keyq, xml, per, run>>

\* The request succeeds: the body is what the run works on; with caching it is
\* written to the cache file next.
FetchOk(p) ==
    /\ procs[p].pc = "fetch"
    /\ \E b \in RemoteBodies(procs[p].load.res) :
         procs' = [procs EXCEPT ![p] =
                     [@ EXCEPT !.pc = IF WritesAfterFetch(procs[p].useCache)
                                      THEN "write" ELSE "loaded",
                               !.fetches = @ + 1,
                               !.body = b,
                               !.got = Bytes(b)]]
    /\ UNCHANGED <<cache, keyq, xml, per, run>>

\* The request fails (transport error, non-success status, body not decodable):
\* the load returns Err and nothing is written.
FetchErr(p) ==
    /\ procs[p].pc = "fetch"
    /\ procs' = [procs EXCEPT ![p] = [@ EXCEPT !.pc = "failed", !.fetches = @ + 1]]
    /\ UNCHANGED <<cache, keyq, xml, per, run>>

\* (variant) the error of fs::write is returned with `?`.
WriteCreateErrPropagated(p) ==
    /\ procs[p].pc = "write"
    /\ procs' = [procs EXCEPT ![p] =
                   [@ EXCEPT !.pc = "failed", !.wrote = "failed", !.io = @ + 1]]
    /\ UNCHANGED <<cache, keyq, xml, per, run>>

\* fs::write cannot create the file (no directory, no permission): the error is
\* dropped by `let _ =` and the load returns the fetched bytes.
WriteCreateErr(p) ==
    /\ procs[p].pc = "write"
    /\ procs' = [procs EXCEPT ![p] =
                   [@ EXCEPT !.pc = "loaded", !.wrote = "failed", !.io = @ + 1]]
    /\ UNCHANGED <<cache, keyq, xml, per, run>>

\* fs::write opens the file with create + truncate.
WriteTruncate(p) ==
    /\ procs[p].pc = "write"
    /\ procs' = [procs EXCEPT ![p] = [@ EXCEPT !.pc = "writing", !.off = 0, !.io = @ + 1]]
    /\ cache' = [cache EXCEPT ![procs[p].load.file] = [exists |-> TRUE, data |-> <<>>]]
    /\ UNCHANGED <<keyq, xml, per, run>>

\* fs::write writes the next block of the body at its offset.
WriteBlock(p) ==
    /\ procs[p].pc = "writing"
    /\ LET me   == procs[p]
           n    == me.off + 1
           src  == Bytes(me.body)
           last == n = Len(src)
       IN  /\ cache' = [cache EXCEPT ![me.load.file] =
                          [exists |-> TRUE, data |-> PutBlock(@.data, n, src[n])]]
           /\ procs' = [procs EXCEPT ![p] =
                          [@ EXCEPT !.off = n,
                                    !.pc = IF last THEN "loaded" ELSE "writing",
                                    !.wrote = IF last THEN "ok" ELSE @]]
    /\ UNCHANGED <<keyq, xml, per, run>>

\* fs::write fails after the truncation (disk full, I/O error): the error is
\* dropped and the file keeps what was written so far.
WriteAbort(p) ==
    /\ procs[p].pc = "writing"
    /\ procs' = [procs EXCEPT ![p] = [@ EXCEPT !.pc = "loaded", !.wrote = "partial"]]
    /\ UNCHANGED <<cache, keyq, xml, per, run>>

CacheNext ==
    \/ \E p \in Procs : Begin(p)
    \/ \E p \in Procs : ReadCache(p)
    \/ \E p \in Procs : FetchOk(p)
    \/ \E p \in Procs : FetchErr(p)
    \/ \E p \in Procs : WriteCreateErr(p)
    \/ \E p \in Procs : WriteTruncate(p)
    \/ \E p \in Procs : WriteBlock(p)
    \/ \E p \in Procs : WriteAbort(p)

SpecCache == CacheInit /\ [][CacheNext]_vars

(***************************************************************************)
(* Claims about the disk cache (checked under SpecCache).                  *)
(***************************************************************************)

\* q began after p had returned: the two loads are successive.
Successive(p, q) == p \in procs[q].after /\ procs[p].load = procs[q].load

PastRead(p) == procs[p].pc \notin {"idle", "read"}

\* What a load accepts as a cache hit.
Usable(load, entry) ==
    /\ entry.exists
    /\ load.res = "dm_countries" => Complete(entry.data) /\ entry.data[1].of.items > 0

WroteEntry(p) ==
    /\ procs[p].useCache
    /\ procs[p].wrote = "ok"
    /\ procs[p].load.res = "dm_countries" => procs[p].body.items > 0

WriteOnMissReadOnHit(p) ==
    /\ (procs[p].pc \in {"write", "writing"} \/ procs[p].wrote # "no")
          => /\ ~procs[p].hit
             /\ procs[p].useCache
             /\ procs[p].fetches = 1
             /\ procs[p].body \in RemoteBodies(procs[p].load.res)
    /\ procs[p].hit
          => /\ procs[p].got = procs[p].seen.data
             /\ procs[p].seen.exists
             /\ procs[p].fetches = 0
             /\ procs[p].wrote = "no"

NeverWrites(p) == procs[p].pc \notin {"write", "writing"} /\ procs[p].wrote = "no"

C3_DisabledCacheAlwaysFetches ==
    \A p \in Procs :
        (procs[p].pc # "idle" /\ ~procs[p].useCache)
            => /\ procs[p].io = 0
               /\ ~procs[p].hit
               /\ NeverWrites(p)
               /\ PastRead(p) => procs[p].pc = "fetch" \/ procs[p].fetches = 1

\* A load without caching fetched although the cache held a complete entry.
C3_Witness ==
    \E p \in Procs :
        /\ procs[p].pc = "loaded"
        /\ ~procs[p].useCache
        /\ procs[p].fetches = 1
        /\ Complete(cache[procs[p].load.file].data)

\* C5 as stated: when processes run the same query concurrently with caching
\* enabled, each works on a complete payload and the entry left in the cache is
\* a complete payload.  (Stated for the runs in which no fs::write is cut short
\* by an I/O error, so that only the interleaving is at stake.)
C5_RacingLoadsSeeCompletePayloads ==
    (\A q \in Procs : procs[q].wrote \notin {"partial", "failed"})
        => /\ \A p \in Procs :
                (procs[p].pc = "loaded" /\ procs[p].useCache) => Complete(procs[p].got)
           /\ (\A p \in Procs : Returned(p))
                => \A f \in Files : cache[f].exists => Complete(cache[f].data)

\* C16: a load whose cache write failed, before or after the file was
\* truncated, still returns, and returns the bytes it fetched: what a load
\* with the cache disabled returns.
C16_WriteFailureNeverFailsLoad ==
    \A p \in Procs :
        procs[p].wrote \in {"failed", "partial"} =>
            /\ procs[p].pc = "loaded"
            /\ procs[p].fetches = 1
            /\ ~procs[p].hit
            /\ procs[p].body \in RemoteBodies(procs[p].load.res)
            /\ procs[p].got = Bytes(procs[p].body)

C16_Witness ==
    \E p, q \in Procs :
        /\ procs[p].wrote = "failed" /\ procs[p].pc = "loaded"
        /\ procs[q].wrote = "partial" /\ procs[q].pc = "loaded"
        /\ procs[p].got = Bytes(procs[p].body)

(***************************************************************************)
(*                  PART 2 - PERIODS AND CACHE KEYS                        *)
(***************************************************************************)

MaxCountryLen == 2

\* The characters the model uses, in ASCII order (u8 / char comparison).
AsciiOrder ==
    << " ", "+", "-", ".", "0", "1", "2", "3", "4", "5", "6", "7", "8", "9",
       "A", "C", "E", "F", "M", "N", "R", "_", "a", "c", "e", "f", "m", "n", "r" >>

Ord(c) == CHOOSE i \in 1..Len(AsciiOrder) : AsciiOrder[i] = c

DigitChars == <<"0", "1", "2", "3", "4", "5", "6", "7", "8", "9">>

IsDigit(c) == \E i \in 1..10 : DigitChars[i] = c

DigitVal(c) == (CHOOSE i \in 1..10 : DigitChars[i] = c) - 1

\* str::trim, over the one whitespace character of the model.
RECURSIVE TrimStart(_)
TrimStart(s) == IF s # <<>> /\ Head(s) = " " THEN TrimStart(Tail(s)) ELSE s

RECURSIVE TrimEnd(_)
TrimEnd(s) ==
    IF s # <<>> /\ s[Len(s)] = " " THEN TrimEnd(SubSeq(s, 1, Len(s) - 1)) ELSE s

Trim(s) == TrimEnd(TrimStart(s))

UpperOf(c) ==
    CASE c = "a" -> "A" [] c = "c" -> "C" [] c = "e" -> "E" [] c = "f" -> "F"
      [] c = "m" -> "M" [] c = "n" -> "N" [] c = "r" -> "R" [] OTHER -> c

LowerOf(c) ==
    CASE c = "A" -> "a" [] c = "C" -> "c" [] c = "E" -> "e" [] c = "F" -> "f"
      [] c = "M" -> "m" [] c = "N" -> "n" [] c = "R" -> "r" [] OTHER -> c

ToUppercase(s) == [ i \in 1..Len(s) |-> UpperOf(s[i]) ]

ToLowercase(s) == [ i \in 1..Len(s) |-> LowerOf(s[i]) ]

\* str::split(ch).collect(): the pieces between the occurrences of ch.
RECURSIVE SplitFrom(_, _, _)
SplitFrom(s, ch, cur) ==
    IF s = <<>> THEN <<cur>>
    ELSE IF Head(s) = ch THEN <<cur>> \o SplitFrom(Tail(s), ch, <<>>)
    ELSE SplitFrom(Tail(s), ch, Append(cur, Head(s)))

Split(s, ch) == SplitFrom(s, ch, <<>>)

\* str::replace(from, to): every occurrence of the character from becomes to.
RECURSIVE Replace(_, _, _)
Replace(s, from, to) ==
    IF s = <<>> THEN <<>>
    ELSE (IF Head(s) = from THEN to ELSE <<Head(s)>>) \o Replace(Tail(s), from, to)

RECURSIVE DigitsValue(_, _)
DigitsValue(s, acc) ==
    IF s = <<>> THEN acc ELSE DigitsValue(Tail(s), acc * 10 + DigitVal(Head(s)))

AllDigits(s) == s # <<>> /\ \A i \in 1..Len(s) : IsDigit(s[i])

ParseErr == [ok |-> FALSE, v |-> 0]

\* str::parse::<i32>(): an optional sign, then one or more digits.  The strings
\* of the model have fewer than ten characters, so no value overflows.
ParseI32(s) ==
    LET signed == s # <<>> /\ Head(s) \in {"+", "-"}
        body   == IF signed THEN Tail(s) ELSE s
        mag    == DigitsValue(body, 0)
        v      == IF signed /\ Head(s) = "-" THEN 0 - mag ELSE mag
    IN  IF AllDigits(body) THEN [ok |-> TRUE, v |-> v] ELSE ParseErr

\* str::parse::<u32>(): an optional '+', then one or more digits ('-' is an
\* invalid digit for an unsigned type).
ParseU32(s) ==
    LET signed == s # <<>> /\ Head(s) = "+"
        body   == IF signed THEN Tail(s) ELSE s
    IN  IF AllDigits(body) THEN [ok |-> TRUE, v |-> DigitsValue(body, 0)] ELSE ParseErr

\* Display of a non-negative integer.
RECURSIVE Digits(_)
Digits(n) == IF n < 10 THEN <<DigitChars[n + 1]>> ELSE Append(Digits(n \div 10), DigitChars[(n % 10) + 1])

\* {:0w}: zero-padded to at least w characters (non-negative numbers).
RECURSIVE PadZero(_, _)
PadZero(ds, w) == IF Len(ds) >= w THEN ds ELSE PadZero(<<"0">> \o ds, w)

StrErr == [ok |-> FALSE, s |-> <<>>]

\* format!("{:04}-{:02}", y, m)
FormatYm(y, m) == PadZero(Digits(y), 4) \o <<"-">> \o PadZero(Digits(m), 2)

\* format!("{:04}-M{:02}", y, m)
FormatSdmxPeriod(y, m) == PadZero(Digits(y), 4) \o <<"-", "M">> \o PadZero(Digits(m), 2)

\* parse_ym.  NaiveDate::from_ymd_opt(y, m, 1) cannot fail here: the month is in
\* 1..12 and a year of at most seven characters is within chrono's range.  A
\* negative year cannot occur: its '-' would make a third part.
parse_ym(s) ==
    LET t     == Trim(s)
        parts == Split(t, "-")
        y     == ParseI32(parts[1])
        m     == ParseU32(parts[2])
    IN  IF Len(t) # 7 THEN StrErr
        ELSE IF Len(parts) # 2 THEN StrErr
        ELSE IF ~y.ok THEN StrErr
        ELSE IF ~m.ok THEN StrErr
        ELSE IF ~(m.v >= 1 /\ m.v <= 12) THEN StrErr
        ELSE [ok |-> TRUE, s |-> FormatYm(y.v, m.v)]

\* ym_to_sdmx_period: "YYYY-MM" => "YYYY-Mmm".
ym_to_sdmx_period(ym) ==
    LET t     == parse_ym(ym)
        parts == Split(t.s, "-")
        y     == ParseI32(parts[1])
        m     == ParseU32(parts[2])
    IN  IF ~t.ok THEN StrErr
        ELSE IF ~y.ok \/ ~m.ok THEN StrErr
        ELSE [ok |-> TRUE, s |-> FormatSdmxPeriod(y.v, m.v)]

SDMX_CPI_INDEX_TYPE == <<"C", "P", "I">>

SDMX_CPI_COICOP == <<"_", "T">>

SDMX_CPI_TRANSFORMATION == <<"I", "X">>

SDMX_CPI_FREQ == <<"M">>

DATAMAPPER_INDICATOR == <<"P", "C", "P", "I", "P", "C", "H">>

\* code.trim().to_uppercase()
CountryCode(arg) == ToUppercase(Trim(arg))

\* format!("{}.{}.{}.{}.{}", country_code, index type, coicop, transformation, freq)
SeriesKey(country_code) ==
    country_code \o <<".">> \o SDMX_CPI_INDEX_TYPE \o <<".">> \o SDMX_CPI_COICOP
        \o <<".">> \o SDMX_CPI_TRANSFORMATION \o <<".">> \o SDMX_CPI_FREQ

\* The cache file of sdmx_fetch_cpi_start_and_latest.
SdmxCacheKey(series_key, start_period, end_period) ==
    <<"s", "d", "m", "x", "_", "c", "p", "i", "_", "x", "m", "l", "_">> \o Replace(series_key, ".", <<"_">>) \o <<"_">>
        \o Replace(start_period, "-", <<>>) \o <<"_">>
        \o Replace(end_period, "-", <<>>) \o <<".", "x", "m", "l">>

\* The cache file of datamapper_deflator_and_yearly_pcpipch.
DmCacheKey(country_iso3, start_year, end_year) ==
    <<"d", "m", "_">> \o DATAMAPPER_INDICATOR \o <<"_">> \o country_iso3 \o <<"_">>
        \o Digits(start_year) \o <<"_">> \o Digits(end_year) \o <<".", "j", "s", "o", "n">>

\* The --country arguments of the model: up to MaxCountryLen characters, with
\* lower and upper case, the two characters the key derivation touches, and
\* surrounding blanks.
CountryChars == {"a", "A", ".", "_", " "}

CountryArgs == UNION { [1..n -> CountryChars] : n \in 1..MaxCountryLen }

\* Start and end as run_sdmx holds them after parse_ym and the clamp to today.
YmRanges ==
    { <<FormatYm(2020, 1), FormatYm(2020, 11)>>,
      <<FormatYm(2020, 1), FormatYm(2021, 1)>>,
      <<FormatYm(2020, 11), FormatYm(2020, 11)>> }

\* Start and end year as run_datamapper holds them after parse_year_loose.
YearRanges == { <<2020, 2020>>, <<2020, 2021>>, <<2021, 2021>> }

Queries ==
    { [mode |-> "sdmx", country |-> c, ym |-> r, years |-> <<0, 0>>] :
          c \in CountryArgs, r \in YmRanges }
    \cup
    { [mode |-> "datamapper", country |-> c, ym |-> <<<<>>, <<>>>>, years |-> r] :
          c \in CountryArgs, r \in YearRanges }

NoKey == [ok |-> FALSE, s |-> <<>>]

KeyInit ==
    /\ \E a, b \in Queries :
          keyq = [pc |-> 1, q |-> <<a, b>>, key |-> <<NoKey, NoKey>>]
    /\ procs = [ p \in Procs |-> IdleProc ]
    /\ cache = CacheIdle
    /\ xml = [mode |-> "idle"]
    /\ per = [pc |-> "idle"]
    /\ run = [pc |-> "idle"]

\* run_sdmx from the country code to the cache file of the data request.
SdmxKeyOf(q) ==
    LET country_code == CountryCode(q.country)
        start_period == ym_to_sdmx_period(q.ym[1])
        end_period   == ym_to_sdmx_period(q.ym[2])
    IN  IF ~start_period.ok \/ ~end_period.ok THEN NoKey
        ELSE [ok |-> TRUE,
              s  |-> SdmxCacheKey(SeriesKey(country_code), start_period.s, end_period.s)]

\* run_datamapper from the country code to the cache file of the values request.
DmKeyOf(q) ==
    [ok |-> TRUE, s |-> DmCacheKey(CountryCode(q.country), q.years[1], q.years[2])]

RunSdmxKey ==
    /\ keyq.pc \in {1, 2}
    /\ keyq.q[keyq.pc].mode = "sdmx"
    /\ keyq' = [keyq EXCEPT !.pc = @ + 1, !.key[keyq.pc] = SdmxKeyOf(keyq.q[keyq.pc])]
    /\ UNCHANGED <<procs, cache, xml, per, run>>

RunDatamapperKey ==
    /\ keyq.pc \in {1, 2}
    /\ keyq.q[keyq.pc].mode = "datamapper"
    /\ keyq' = [keyq EXCEPT !.pc = @ + 1, !.key[keyq.pc] = DmKeyOf(keyq.q[keyq.pc])]
    /\ UNCHANGED <<procs, cache, xml, per, run>>

KeyNext == RunSdmxKey \/ RunDatamapperKey

SpecKey == KeyInit /\ [][KeyNext]_vars

(***************************************************************************)
(* Claims about the cache keys (checked under SpecKey).                    *)
(***************************************************************************)

\* The query a run answers: the mode, the country code and the period range.
Logical(q) == [q EXCEPT !.country = CountryCode(q.country)]

\* C4 as stated: two distinct logical queries are never mapped to the same cache
\* key, and the same logical query is always mapped to the same key.
C4_KeysInjective ==
    keyq.pc = 3
        => /\ keyq.key[1].ok /\ keyq.key[2].ok
           /\ (keyq.key[1].s = keyq.key[2].s) <=> (Logical(keyq.q[1]) = Logical(keyq.q[2]))

(***************************************************************************)
(*                PART 3 - THE TWO XML EXTRACTION LOOPS                    *)
(***************************************************************************)

MaxCodes == 2

MaxObs == 3

\* slice::ends_with on the raw (prefixed) element or attribute name.
EndsWith(s, suffix) ==
    /\ Len(s) >= Len(suffix)
    /\ SubSeq(s, Len(s) - Len(suffix) + 1, Len(s)) = suffix

\* str::eq_ignore_ascii_case
EqIgnoreAsciiCase(a, b) == ToLowercase(a) = ToLowercase(b)

\* Ord::cmp on str: byte-wise lexicographic order.
RECURSIVE StrLess(_, _)
StrLess(a, b) ==
    IF b = <<>> THEN FALSE
    ELSE IF a = <<>> THEN TRUE
    ELSE IF Head(a) # Head(b) THEN Ord(Head(a)) < Ord(Head(b))
    ELSE StrLess(Tail(a), Tail(b))

StrLeq(a, b) == ~StrLess(b, a)

None == [some |-> FALSE, v |-> <<>>]

Some(x) == [some |-> TRUE, v |-> x]

\* The events quick-xml's read_event_into yields (Eof is the end of the list).
StartEv(name, attrs) == [kind |-> "Start", name |-> name, attrs |-> attrs, text |-> <<>>]

EmptyEv(name, attrs) == [kind |-> "Empty", name |-> name, attrs |-> attrs, text |-> <<>>]

EndEv(name) == [kind |-> "End", name |-> name, attrs |-> <<>>, text |-> <<>>]

TextEv(t) == [kind |-> "Text", name |-> <<>>, attrs |-> <<>>, text |-> t]

Attr(key, value) == [key |-> key, value |-> value]

(***************************************************************************)
(* sdmx_load_or_fetch_countries_iso3: the codelist loop.                   *)
(***************************************************************************)

\* The locals of the loop: in_code, current_id, current_name,
\* capture_name_text and out.
CodelistLocals ==
    [in_code |-> FALSE, current_id |-> None, current_name |-> None,
     capture_name_text |-> FALSE, out |-> <<>>]

\* for a in e.attributes(): if a.key ends with "id" { current_id = Some(value) }
RECURSIVE LastIdAttr(_, _)
LastIdAttr(attrs, acc) ==
    IF attrs = <<>> THEN acc
    ELSE LastIdAttr(Tail(attrs),
                    IF EndsWith(Head(attrs).key, <<"i", "d">>) THEN Some(Head(attrs).value) ELSE acc)

\* for a in e.attributes(): if a.key ends with "lang" and value is "en" { is_en = true }
IsEn(attrs) ==
    \E i \in 1..Len(attrs) :
        EndsWith(attrs[i].key, <<"l", "a", "n", "g">>) /\ EqIgnoreAsciiCase(attrs[i].value, <<"e", "n">>)

\* capture_name_text = is_en || current_name.is_none()
CaptureAnyName(is_en, current_name) == TRUE

CaptureName(is_en, current_name) == is_en \/ ~current_name.some

\* One iteration of the loop on an event other than Eof.
CodelistEvent(st, e) ==
    CASE e.kind = "Start" ->
           IF EndsWith(e.name, <<"C", "o", "d", "e">>)
           THEN [st EXCEPT !.in_code = TRUE,
                           !.current_id = LastIdAttr(e.attrs, None),
                           !.current_name = None]
           ELSE IF st.in_code /\ EndsWith(e.name, <<"N", "a", "m", "e">>)
           THEN [st EXCEPT !.capture_name_text = CaptureName(IsEn(e.attrs), st.current_name)]
           ELSE st
      [] e.kind = "Text" ->
           IF st.in_code /\ st.capture_name_text
           THEN [st EXCEPT !.current_name = Some(e.text)]
           ELSE st
      [] e.kind = "End" ->
           LET s1 == IF EndsWith(e.name, <<"N", "a", "m", "e">>)
                     THEN [st EXCEPT !.capture_name_text = FALSE] ELSE st
           IN  IF EndsWith(e.name, <<"C", "o", "d", "e">>) /\ s1.in_code
               THEN IF s1.current_id.some
                    THEN [s1 EXCEPT
                            !.out = Append(@, [code |-> s1.current_id.v,
                                               name |-> IF s1.current_name.some
                                                        THEN s1.current_name.v
                                                        ELSE s1.current_id.v]),
                            !.current_id = None,
                            !.current_name = None,
                            !.in_code = FALSE]
                    ELSE [s1 EXCEPT !.in_code = FALSE]
               ELSE s1
      [] OTHER -> st

\* out.sort_by(|a, b| a.name.to_lowercase().cmp(&b.name.to_lowercase())): stable.
RECURSIVE InsertItem(_, _)
InsertItem(sorted, x) ==
    IF sorted = <<>> THEN <<x>>
    ELSE IF StrLess(ToLowercase(x.name), ToLowercase(Head(sorted).name))
    THEN <<x>> \o sorted
    ELSE <<Head(sorted)>> \o InsertItem(Tail(sorted), x)

RECURSIVE SortItems(_)
SortItems(items) ==
    IF items = <<>> THEN <<>>
    ELSE InsertItem(SortItems(SubSeq(items, 1, Len(items) - 1)), items[Len(items)])

\* (variant) the list is returned whatever its length.
CodelistFinishUnchecked(out) ==
    [status |-> "ok", err |-> "none", out |-> SortItems(out)]

\* After the loop: an empty list is an error, otherwise the sorted list is returned.
CodelistFinish(out) ==
    IF out = <<>>
    THEN [status |-> "err", err |-> "Parsed 0 country codes from SDMX Central", out |-> out]
    ELSE [status |-> "ok", err |-> "none", out |-> SortItems(out)]

(***************************************************************************)
(* sdmx_fetch_cpi_start_and_latest: the observation loop and the pick.     *)
(***************************************************************************)

\* str::parse::<f64>() on the attribute values of the model.  NaN parses (and
\* compares false with everything); the empty string and "abc" do not parse.
ParseF64(s) ==
    CASE s = "100.0" -> [ok |-> TRUE, nan |-> FALSE, n |-> 100]
      [] s = "110"   -> [ok |-> TRUE, nan |-> FALSE, n |-> 110]
      [] s = "125"   -> [ok |-> TRUE, nan |-> FALSE, n |-> 125]
      [] s = "0"     -> [ok |-> TRUE, nan |-> FALSE, n |-> 0]
      [] s = "NaN"   -> [ok |-> TRUE, nan |-> TRUE, n |-> 0]
      [] OTHER       -> [ok |-> FALSE, nan |-> FALSE, n |-> 0]

\* v > 0.0
Positive(v) == ~v.nan /\ v.n > 0

\* v <= 0.0
NonPositive(v) == ~v.nan /\ v.n <= 0

NoVal == [some |-> FALSE, v |-> [ok |-> FALSE, nan |-> FALSE, n |-> 0]]

\* The attribute loop of one Obs: tp and val after the attributes seen so far,
\* or the error of `?` on a value that is not a number.
RECURSIVE ObsAttrs(_, _, _)
ObsAttrs(attrs, tp, val) ==
    IF attrs = <<>> THEN [ok |-> TRUE, tp |-> tp, val |-> val]
    ELSE LET a == Head(attrs)
         IN  IF EndsWith(a.key, <<"T", "I", "M", "E", "_", "P", "E", "R", "I", "O", "D">>)
             THEN ObsAttrs(Tail(attrs), Some(a.value), val)
             ELSE IF EndsWith(a.key, <<"O", "B", "S", "_", "V", "A", "L", "U", "E">>)
             THEN IF ParseF64(a.value).ok
                  THEN ObsAttrs(Tail(attrs), tp, [some |-> TRUE, v |-> ParseF64(a.value)])
                  ELSE [ok |-> FALSE, tp |-> tp, val |-> val]
             ELSE ObsAttrs(Tail(attrs), tp, val)

\* Ok(Event::Empty(e)) | Ok(Event::Start(e))
ObsFormsSelfClosingOnly == {"Empty"}

ObsForms == {"Empty", "Start"}

\* if v > 0.0 { obs.push((t, v)) }
Keeps(v) == Positive(v)

\* One iteration of the loop on an event other than Eof: the list after it, or
\* the error that ends the function.
ObsEvent(obs, e) ==
    IF e.kind \in ObsForms /\ EndsWith(e.name, <<"O", "b", "s">>)
    THEN LET r == ObsAttrs(e.attrs, None, NoVal)
         IN  IF ~r.ok THEN [ok |-> FALSE, obs |-> obs]
             ELSE IF r.tp.some /\ r.val.some /\ Keeps(r.val.v)
             THEN [ok |-> TRUE, obs |-> Append(obs, [t |-> r.tp.v, v |-> r.val.v.n])]
             ELSE [ok |-> TRUE, obs |-> obs]
    ELSE [ok |-> TRUE, obs |-> obs]

\* obs.sort_by(|a, b| a.0.cmp(&b.0)): stable.
RECURSIVE InsertObs(_, _)
InsertObs(sorted, x) ==
    IF sorted = <<>> THEN <<x>>
    ELSE IF StrLess(x.t, Head(sorted).t) THEN <<x>> \o sorted
    ELSE <<Head(sorted)>> \o InsertObs(Tail(sorted), x)

RECURSIVE SortObs(_)
SortObs(obs) ==
    IF obs = <<>> THEN <<>>
    ELSE InsertObs(SortObs(SubSeq(obs, 1, Len(obs) - 1)), obs[Len(obs)])

NoObs == [t |-> <<>>, v |-> 0]

\* (variant) the first observation strictly after the start period.
FindStartAfter(sorted, start_period) ==
    LET hits == { i \in 1..Len(sorted) : StrLess(start_period, sorted[i].t) }
    IN  IF hits = {} THEN [some |-> FALSE, v |-> NoObs]
        ELSE [some |-> TRUE, v |-> sorted[CHOOSE i \in hits : \A j \in hits : i <= j]]

\* obs.iter().find(|(t, _)| t.as_str() >= start_period)
FindStart(sorted, start_period) ==
    LET hits == { i \in 1..Len(sorted) : StrLeq(start_period, sorted[i].t) }
    IN  IF hits = {} THEN [some |-> FALSE, v |-> NoObs]
        ELSE [some |-> TRUE, v |-> sorted[CHOOSE i \in hits : \A j \in hits : i <= j]]

NoResult == [some |-> FALSE, start |-> NoObs, latest |-> NoObs]

\* After the loop: the empty check, the sort, the start and latest observation
\* and the re-check of the two values.
ObsFinish(obs, start_period) ==
    LET sorted == SortObs(obs)
        start  == FindStart(sorted, start_period)
        latest == sorted[Len(sorted)]
    IN  IF obs = <<>>
        THEN [status |-> "err", err |-> "No observations found in SDMX XML response",
              obs |-> obs, result |-> NoResult]
        ELSE IF ~start.some
        THEN [status |-> "err", err |-> "No CPI data found at/after start date",
              obs |-> sorted, result |-> NoResult]
        ELSE IF start.v.v <= 0 \/ latest.v <= 0
        THEN [status |-> "err", err |-> "Invalid CPI values (<= 0)",
              obs |-> sorted, result |-> NoResult]
        ELSE [status |-> "ok", err |-> "none", obs |-> sorted,
              result |-> [some |-> TRUE, start |-> start.v, latest |-> latest]]

(***************************************************************************)
(* The documents of the model.                                             *)
(***************************************************************************)

\* A codelist is a list of Code elements.  A Code element is self-closing or
\* open; it has an id attribute or none; an open one has up to two Name
\* children, each with an xml:lang attribute (English is tagged in either
\* case) and with or without text.
NameKinds ==
    { [lang |-> <<"E", "N">>, text |-> TRUE], [lang |-> <<"f", "r">>, text |-> TRUE],
      [lang |-> <<"e", "n">>, text |-> FALSE], [lang |-> <<"f", "r">>, text |-> FALSE] }

NameLists == {<<>>} \cup { <<a>> : a \in NameKinds } \cup { <<a, b>> : a, b \in NameKinds }

CodeKinds ==
    { [open |-> TRUE, id |-> TRUE, names |-> ns] : ns \in NameLists }
    \cup { [open |-> TRUE, id |-> FALSE, names |-> << [lang |-> <<"E", "N">>, text |-> TRUE] >>],
           [open |-> FALSE, id |-> TRUE, names |-> <<>>] }

Codelists == UNION { [1..n -> CodeKinds] : n \in 0..MaxCodes }

\* The id of the k-th Code and the text of its j-th Name: English names start
\* with an upper-case letter, the others with a lower-case one.
CodeId(k) == <<"C">> \o Digits(k)

NameText(k, j, lang) ==
    (IF EqIgnoreAsciiCase(lang, <<"e", "n">>) THEN <<"E">> ELSE <<"a">>) \o Digits(k) \o Digits(j)

RECURSIVE NameEvents(_, _, _)
NameEvents(k, names, j) ==
    IF j > Len(names) THEN <<>>
    ELSE << StartEv(<<"c", "o", "m", ":", "N", "a", "m", "e">>, << Attr(<<"x", "m", "l", ":", "l", "a", "n", "g">>, names[j].lang) >>) >>
         \o (IF names[j].text THEN << TextEv(NameText(k, j, names[j].lang)) >> ELSE <<>>)
         \o << EndEv(<<"c", "o", "m", ":", "N", "a", "m", "e">>) >>
         \o NameEvents(k, names, j + 1)

CodeAttrs(k, c) ==
    IF c.id THEN << Attr(<<"u", "r", "n">>, <<"u">>), Attr(<<"i", "d">>, CodeId(k)) >> ELSE << Attr(<<"u", "r", "n">>, <<"u">>) >>

CodeEvents(k, c) ==
    IF c.open
    THEN << StartEv(<<"s", "t", "r", ":", "C", "o", "d", "e">>, CodeAttrs(k, c)) >> \o NameEvents(k, c.names, 1)
         \o << EndEv(<<"s", "t", "r", ":", "C", "o", "d", "e">>) >>
    ELSE << EmptyEv(<<"s", "t", "r", ":", "C", "o", "d", "e">>, CodeAttrs(k, c)) >>

RECURSIVE CodelistEvents(_, _)
CodelistEvents(codes, k) ==
    IF k > Len(codes) THEN <<>>
    ELSE CodeEvents(k, codes[k]) \o CodelistEvents(codes, k + 1)

\* The period tokens of the model, as the feed writes them.
P2020M01 == FormatSdmxPeriod(2020, 1)

P2020M06 == FormatSdmxPeriod(2020, 6)

P2021M01 == FormatSdmxPeriod(2021, 1)

P2021M06 == FormatSdmxPeriod(2021, 6)

TP(t) == Attr(<<"T", "I", "M", "E", "_", "P", "E", "R", "I", "O", "D">>, t)

OV(s) == Attr(<<"O", "B", "S", "_", "V", "A", "L", "U", "E">>, s)

\* The elements of a data document: Obs elements in both forms, with and
\* without a namespace prefix, complete, partial, zero, NaN and non-numeric,
\* a Series element that carries the same attributes, and a closing tag.
ObsDocEvents ==
    { EmptyEv(<<"O", "b", "s">>, << TP(P2020M01), OV("100.0") >>),
      StartEv(<<"g", ":", "O", "b", "s">>, << TP(P2020M06), OV("125"), Attr(<<"O", "B", "S", "_", "S", "T", "A", "T", "U", "S">>, <<"A">>) >>),
      EmptyEv(<<"O", "b", "s">>, << OV("110"), TP(P2021M01) >>),
      StartEv(<<"O", "b", "s">>, << TP(P2020M06), OV("0") >>),
      EmptyEv(<<"O", "b", "s">>, << TP(P2021M01), OV("NaN") >>),
      EmptyEv(<<"O", "b", "s">>, << TP(P2020M01) >>),
      StartEv(<<"O", "b", "s">>, << OV("125") >>),
      EmptyEv(<<"O", "b", "s">>, << OV("abc") >>),
      StartEv(<<"S", "e", "r", "i", "e", "s">>, << TP(P2020M01), OV("125") >>),
      EndEv(<<"O", "b", "s">>) }

ObsDocs == UNION { [1..n -> ObsDocEvents] : n \in 0..MaxObs }

\* The start and end period of the request.
PeriodRanges == { <<P2020M06, P2020M06>>, <<P2021M06, P2021M06>> }

XmlState(mode, codes, doc, range) ==
    [ mode   |-> mode,
      codes  |-> codes,             \* the codelist the document was written from
      doc    |-> doc,               \* the events of the document
      pos    |-> 0,                 \* events read so far
      status |-> "scan",            \* scan, ok, err
      err    |-> "none",
      cl     |-> CodelistLocals,    \* the locals of the codelist loop
      obs    |-> <<>>,              \* the list of the observation loop
      start_period |-> range[1],
      end_period   |-> range[2],
      result |-> NoResult ]

XmlInit ==
    /\ \/ \E codes \in Codelists :
            xml = XmlState("codelist", codes, CodelistEvents(codes, 1), <<<<>>, <<>>>>)
       \/ \E doc \in ObsDocs, range \in PeriodRanges :
            xml = XmlState("obs", <<>>, doc, range)
    /\ procs = [ p \in Procs |-> IdleProc ]
    /\ cache = CacheIdle
    /\ keyq = [pc |-> "idle"]
    /\ per = [pc |-> "idle"]
    /\ run = [pc |-> "idle"]

\* The codelist loop reads one event.
CodelistStep ==
    /\ xml.mode = "codelist" /\ xml.status = "scan" /\ xml.pos < Len(xml.doc)
    /\ xml' = [xml EXCEPT !.pos = @ + 1,
                          !.cl = CodelistEvent(@, xml.doc[xml.pos + 1])]
    /\ UNCHANGED <<procs, cache, keyq, per, run>>

\* The codelist loop reads Eof and the function returns.
CodelistEof ==
    /\ xml.mode = "codelist" /\ xml.status = "scan" /\ xml.pos = Len(xml.doc)
    /\ LET f == CodelistFinish(xml.cl.out)
       IN  xml' = [xml EXCEPT !.status = f.status, !.err = f.err, !.cl.out = f.out]
    /\ UNCHANGED <<procs, cache, keyq, per, run>>

\* The observation loop reads one event.
ObsStep ==
    /\ xml.mode = "obs" /\ xml.status = "scan" /\ xml.pos < Len(xml.doc)
    /\ LET r == ObsEvent(xml.obs, xml.doc[xml.pos + 1])
       IN  xml' = [xml EXCEPT !.pos = @ + 1,
                              !.obs = r.obs,
                              !.status = IF r.ok THEN "scan" ELSE "err",
                              !.err = IF r.ok THEN "none" ELSE "OBS_VALUE not numeric"]
    /\ UNCHANGED <<procs, cache, keyq, per, run>>

\* The observation loop reads Eof and the function returns.
ObsEof ==
    /\ xml.mode = "obs" /\ xml.status = "scan" /\ xml.pos = Len(xml.doc)
    /\ LET f == ObsFinish(xml.obs, xml.start_period)
       IN  xml' = [xml EXCEPT !.status = f.status, !.err = f.err, !.obs = f.obs,
                              !.result = f.result]
    /\ UNCHANGED <<procs, cache, keyq, per, run>>

XmlNext == CodelistStep \/ CodelistEof \/ ObsStep \/ ObsEof

SpecXml == XmlInit /\ [][XmlNext]_vars

(***************************************************************************)
(*                     CLAIMS ABOUT THE EXTRACTION                         *)
(***************************************************************************)

\* The local name of a qualified name: what follows the last colon.
RECURSIVE LocalName(_)
LocalName(name) ==
    IF \E i \in 1..Len(name) : name[i] = ":" THEN LocalName(Tail(name)) ELSE name

IsObsElement(e) == e.kind \in {"Start", "Empty"} /\ LocalName(e.name) = <<"O", "b", "s">>

HasAttr(e, k) == \E i \in 1..Len(e.attrs) : LocalName(e.attrs[i].key) = k

AttrValue(e, k) ==
    e.attrs[CHOOSE i \in 1..Len(e.attrs) : LocalName(e.attrs[i].key) = k].value

HasBoth(e) == HasAttr(e, <<"T", "I", "M", "E", "_", "P", "E", "R", "I", "O", "D">>) /\ HasAttr(e, <<"O", "B", "S", "_", "V", "A", "L", "U", "E">>)

NonNumeric(e) ==
    IsObsElement(e) /\ HasAttr(e, <<"O", "B", "S", "_", "V", "A", "L", "U", "E">>) /\ ~ParseF64(AttrValue(e, <<"O", "B", "S", "_", "V", "A", "L", "U", "E">>)).ok

\* An Obs with both attributes and a parsed value that is strictly positive.
Emits(e) ==
    /\ IsObsElement(e) /\ HasBoth(e)
    /\ ParseF64(AttrValue(e, <<"O", "B", "S", "_", "V", "A", "L", "U", "E">>)).ok
    /\ Positive(ParseF64(AttrValue(e, <<"O", "B", "S", "_", "V", "A", "L", "U", "E">>)))

\* An Obs that lacks an attribute, or carries a value <= 0.
Dropped(e) ==
    /\ IsObsElement(e)
    /\ \/ ~HasBoth(e)
       \/ /\ ParseF64(AttrValue(e, <<"O", "B", "S", "_", "V", "A", "L", "U", "E">>)).ok
          /\ NonPositive(ParseF64(AttrValue(e, <<"O", "B", "S", "_", "V", "A", "L", "U", "E">>)))

RecordOf(e) ==
    [t |-> AttrValue(e, <<"T", "I", "M", "E", "_", "P", "E", "R", "I", "O", "D">>), v |-> ParseF64(AttrValue(e, <<"O", "B", "S", "_", "V", "A", "L", "U", "E">>)).n]

ExpectedObs(events) ==
    LET es == SelectSeq(events, Emits)
    IN  [ i \in 1..Len(es) |-> RecordOf(es[i]) ]

Read == SubSeq(xml.doc, 1, xml.pos)

StoppedAt(i) == xml.status = "err" /\ xml.err = "OBS_VALUE not numeric" /\ xml.pos = i

\* The same document with every self-closing element written as an opening
\* tag and every opening tag written as a self-closing element.
OtherForm(events) ==
    [ i \in 1..Len(events) |->
        [events[i] EXCEPT !.kind = IF events[i].kind = "Start" THEN "Empty"
                                   ELSE IF events[i].kind = "Empty" THEN "Start"
                                   ELSE events[i].kind] ]

\* The observation loop over a whole list of events.
RECURSIVE ScanObs(_, _)
ScanObs(obs, events) ==
    IF events = <<>> THEN [ok |-> TRUE, obs |-> obs]
    ELSE LET r == ObsEvent(obs, Head(events))
         IN  IF r.ok THEN ScanObs(r.obs, Tail(events)) ELSE r

\* C6 (as stated): the records extracted are exactly those of the Obs elements
\* with both attributes and a strictly positive value, and no Obs that lacks
\* an attribute or carries a value <= 0 stops the scan.
C6_ObsLackingAttributeNeverStopsScan ==
    xml.mode = "obs" =>
        /\ xml.status = "scan" => xml.obs = ExpectedObs(Read)
        /\ \A i \in 1..xml.pos : Dropped(xml.doc[i]) => ~StoppedAt(i)

\* C6 (amended): as long as no Obs read so far carries an OBS_VALUE that is
\* not a number, the scan goes on and the records extracted are exactly those
\* of the Obs elements with both attributes and a strictly positive value, in
\* document order, whatever the form of the elements; the scan stops exactly
\* at an Obs whose OBS_VALUE is not a number.
C6_ObsExtraction ==
    xml.mode = "obs" =>
        /\ (\A i \in 1..xml.pos : ~NonNumeric(xml.doc[i])) =>
              /\ xml.err # "OBS_VALUE not numeric"
              /\ xml.status = "scan" =>
                    /\ xml.obs = ExpectedObs(Read)
                    /\ xml.obs = ScanObs(<<>>, OtherForm(Read)).obs
              /\ xml.status # "scan" => xml.obs = SortObs(ExpectedObs(xml.doc))
        /\ \A i \in 1..xml.pos : StoppedAt(i) <=> (xml.pos = i /\ NonNumeric(xml.doc[i]))

C6_Witness ==
    /\ xml.mode = "obs" /\ xml.status = "scan" /\ xml.pos = 3
    /\ Len(xml.obs) = 1
    /\ \E i \in 1..3 : xml.doc[i].kind = "Start" /\ Emits(xml.doc[i])
    /\ \E i \in 1..3 : Dropped(xml.doc[i]) /\ ~HasBoth(xml.doc[i])
    /\ \E i \in 1..3 : Dropped(xml.doc[i]) /\ HasBoth(xml.doc[i])

\* The Name children of the k-th Code, the text of the j-th one (empty when it
\* has none), and which of them are English-tagged.
NamesOf(k) == xml.codes[k].names

TextOf(k, j) ==
    IF NamesOf(k)[j].text THEN NameText(k, j, NamesOf(k)[j].lang) ELSE <<>>

English(k) == { j \in 1..Len(NamesOf(k)) : EqIgnoreAsciiCase(NamesOf(k)[j].lang, <<"e", "n">>) }

WithText(k) == { j \in 1..Len(NamesOf(k)) : NamesOf(k)[j].text }

CodeOfEntry(entry) == CHOOSE k \in 1..Len(xml.codes) : CodeId(k) = entry.code

Entries == { xml.cl.out[i] : i \in 1..Len(xml.cl.out) }

\* C7 (as stated): with an English-tagged Name child the committed name is the
\* text of an English-tagged Name; with Name children none of which is
\* English-tagged it is the text of the first Name child, and never the code.
C7_EnglishElseFirstName ==
    xml.mode = "codelist" =>
        \A entry \in Entries :
            LET k == CodeOfEntry(entry)
            IN  /\ English(k) # {} => entry.name \in { TextOf(k, j) : j \in English(k) }
                /\ (English(k) = {} /\ NamesOf(k) # <<>>) =>
                      /\ entry.name = TextOf(k, 1)
                      /\ entry.name # entry.code

\* The name the loop leaves for the k-th Code: the text of the last
\* English-tagged Name that has text, else the text of the first Name that has
\* text, else the code.
Max(S) == CHOOSE x \in S : \A y \in S : y <= x

Min(S) == CHOOSE x \in S : \A y \in S : x <= y

CapturedName(k) ==
    IF English(k) \cap WithText(k) # {} THEN TextOf(k, Max(English(k) \cap WithText(k)))
    ELSE IF WithText(k) # {} THEN TextOf(k, Min(WithText(k)))
    ELSE CodeId(k)

\* C7 (amended): counting only the Name children that have text, the committed
\* name is the text of an English-tagged Name when there is one, wherever the
\* other Names stand; else the text of the first Name, never a later one; and
\* it is the code only when no Name child has text.
C7_EnglishElseFirstNameWithText ==
    xml.mode = "codelist" =>
        \A entry \in Entries :
            LET k == CodeOfEntry(entry)
            IN  /\ entry.name = CapturedName(k)
                /\ English(k) \cap WithText(k) # {} =>
                      entry.name \in { TextOf(k, j) : j \in English(k) \cap WithText(k) }
                /\ (English(k) \cap WithText(k) = {} /\ WithText(k) # {}) =>
                      /\ entry.name = TextOf(k, Min(WithText(k)))
                      /\ entry.name # entry.code
                /\ entry.name = entry.code <=> WithText(k) = {}

C7_Witness ==
    /\ xml.mode = "codelist" /\ xml.status = "ok" /\ Len(xml.cl.out) = 2
    /\ \E entry \in Entries :
          LET k == CodeOfEntry(entry)
          IN  /\ Len(NamesOf(k)) = 2 /\ WithText(k) = {1, 2} /\ English(k) = {2}
              /\ entry.name = TextOf(k, 2)
    /\ \E entry \in Entries :
          LET k == CodeOfEntry(entry)
          IN  /\ Len(NamesOf(k)) = 2 /\ WithText(k) = {2} /\ English(k) = {1}
              /\ entry.name = TextOf(k, 2)

\* The Code elements that are closed once the events read so far are read.
Closed(k) == Len(CodelistEvents(SubSeq(xml.codes, 1, k), 1)) <= xml.pos

RECURSIVE EntriesOfCodes(_, _)
EntriesOfCodes(k, n) ==
    IF k > n THEN <<>>
    ELSE (IF xml.codes[k].id
          THEN << [code |-> CodeId(k), name |-> CapturedName(k)] >> ELSE <<>>)
         \o EntriesOfCodes(k + 1, n)

ClosedCodes == Max({0} \cup { k \in 1..Len(xml.codes) : Closed(k) })

\* C8 (as stated): once a Code element that carries an id is closed, the
\* output holds exactly one entry for it, with the name captured inside that
\* element or else its code, and nothing of another Code.
C8_OneEntryPerCodeWithId ==
    (xml.mode = "codelist" /\ xml.status = "scan") =>
        xml.cl.out = EntriesOfCodes(1, ClosedCodes)

\* C9: on a non-empty list of observations the start observation has the
\* smallest token >= the start token, the latest observation has the greatest
\* token whatever the end period, start token <= latest token, and the
\* operation fails with the 'no data at/after start' error exactly when no
\* token is >= the start token.
Tokens == { xml.obs[i].t : i \in 1..Len(xml.obs) }

AtOrAfterStart == { t \in Tokens : StrLeq(xml.start_period, t) }

C9_PickStartAndLatest ==
    (xml.mode = "obs" /\ xml.status # "scan" /\ xml.err # "OBS_VALUE not numeric"
        /\ xml.obs # <<>>) =>
        /\ \A i \in 1..(Len(xml.obs) - 1) : StrLeq(xml.obs[i].t, xml.obs[i + 1].t)
        /\ (xml.status = "err" /\ xml.err = "No CPI data found at/after start date")
              <=> AtOrAfterStart = {}
        /\ xml.status = "ok" <=> AtOrAfterStart # {}
        /\ xml.status = "ok" =>
              /\ xml.result.some
              /\ \E i \in 1..Len(xml.obs) : xml.obs[i] = xml.result.start
              /\ xml.result.start.t \in AtOrAfterStart
              /\ \A t \in AtOrAfterStart : StrLeq(xml.result.start.t, t)
              /\ \E i \in 1..Len(xml.obs) : xml.obs[i] = xml.result.latest
              /\ \A t \in Tokens : StrLeq(t, xml.result.latest.t)
              /\ StrLeq(xml.result.start.t, xml.result.latest.t)

C9_Witness ==
    /\ xml.mode = "obs" /\ xml.status = "ok" /\ Len(xml.obs) = 3
    /\ StrLess(xml.obs[1].t, xml.start_period)
    /\ xml.result.start.t = xml.start_period
    /\ StrLess(xml.result.start.t, xml.result.latest.t)
    /\ StrLess(xml.end_period, xml.result.latest.t)

\* C10: an extraction that ends with no record ends in its own error, never in
\* an empty successful result, and a result is only ever picked from a
\* non-empty list.
C10_ZeroRecordsIsAnError ==
    /\ (xml.mode = "codelist" /\ xml.status # "scan") =>
          /\ xml.status = "ok" => xml.cl.out # <<>>
          /\ xml.cl.out = <<>> =>
                /\ xml.status = "err"
                /\ xml.err = "Parsed 0 country codes from SDMX Central"
    /\ (xml.mode = "obs" /\ xml.status # "scan" /\ xml.err # "OBS_VALUE not numeric") =>
          /\ xml.status = "ok" => xml.obs # <<>>
          /\ xml.result.some => xml.obs # <<>>
          /\ xml.obs = <<>> =>
                /\ xml.status = "err"
                /\ xml.err = "No observations found in SDMX XML response"
                /\ ~xml.result.some

C10_Witness ==
    /\ xml.mode = "codelist" /\ xml.status = "err" /\ xml.pos > 0
    /\ \A k \in 1..Len(xml.codes) : xml.codes[k].open /\ ~xml.codes[k].id
    /\ xml.err = "Parsed 0 country codes from SDMX Central"
    /\ xml.cl.out = <<>>

(***************************************************************************)
(*                     PART 4 - THE TWO RUN MODES                          *)
(***************************************************************************)

MaxYears == 3

\* parse_year_loose: the text before the first '-', as an i32 in 1800..=3000.
parse_year_loose(s) ==
    LET t         == Trim(s)
        year_part == Split(t, "-")[1]
        y         == ParseI32(year_part)
    IN  IF ~y.ok THEN ParseErr
        ELSE IF ~(y.v >= 1800 /\ y.v <= 3000) THEN ParseErr
        ELSE y

\* sdmx_period_to_ym: "2025-M11" -> "2025-11"; any other text is returned as is.
sdmx_period_to_ym(p) ==
    IF Len(p) = 8 /\ p[5] = "-" /\ p[6] = "M" /\ IsDigit(p[7]) /\ IsDigit(p[8])
    THEN SubSeq(p, 1, 4) \o <<"-">> \o SubSeq(p, 7, 8)
    ELSE p

\* main: --end is trimmed, and an empty text counts as no --end.
EndInput(arg) ==
    IF ~arg.some THEN None
    ELSE IF Trim(arg.v) = <<>> THEN None
    ELSE Some(Trim(arg.v))

\* The clock: chrono::Utc::now().date_naive().
CurrentYear == 2018 + MaxYears

CurrentYm == FormatYm(CurrentYear, 6)

\* if end_ym > current_ym { end_ym = current_ym }: a comparison of Strings.
SdmxClamp(end_ym, current_ym) == IF StrLess(current_ym, end_ym) THEN current_ym ELSE end_ym

\* if end_year_used > current_year { end_year_used = current_year }
DmClamp(end_year, current_year) == IF end_year > current_year THEN current_year ELSE end_year

(***************************************************************************)
(* datamapper_deflator_and_yearly_pcpipch: the chain over the years.       *)
(***************************************************************************)

\* The years the series of the model may have an entry for.
Years == 2019..CurrentYear

\* The entry of a year: none, a JSON value that is not a number (null, a
\* string), or a number.  The rates of the model are multiples of 5 percent.
Absent == [kind |-> "absent", pct |-> 0]

NotANumber == [kind |-> "string", pct |-> 0]

Number(pct) == [kind |-> "number", pct |-> pct]

YearEntries == {Absent, NotANumber} \cup { Number(r) : r \in {10, 0 - 5, 0 - 100, 0 - 150} }

\* series.get(&key)
Get(series, y) == IF y \in DOMAIN series THEN series[y] ELSE Absent

\* The f64 values of the chain are kept exact, as fractions n / d.
One == [n |-> 1, d |-> 1]

\* 1.0 + (pi / 100.0)
Factor(pi) == [n |-> (100 + pi) \div 5, d |-> 20]

Times(a, b) == [n |-> a.n * b.n, d |-> a.d * b.d]

NoYear == [some |-> FALSE, v |-> 0]

ChainStart == [deflator |-> One, latest_year |-> NoYear, yearly |-> <<>>]

\* (variant) a year without a number counts as a rate of zero.
ChainYearZeroFilled(acc, y, series) ==
    LET pi == IF Get(series, y).kind = "number" THEN Get(series, y).pct ELSE 0
    IN  [deflator    |-> Times(acc.deflator, Factor(pi)),
         latest_year |-> [some |-> TRUE, v |-> y],
         yearly      |-> Append(acc.yearly, [year |-> y, pct |-> pi])]

\* One iteration of `for y in years`.
ChainYear(acc, y, series) ==
    IF Get(series, y).kind = "number"
    THEN [deflator    |-> Times(acc.deflator, Factor(Get(series, y).pct)),
          latest_year |-> [some |-> TRUE, v |-> y],
          yearly      |-> Append(acc.yearly, [year |-> y, pct |-> Get(series, y).pct])]
    ELSE acc

RECURSIVE ChainYears(_, _, _, _)
ChainYears(acc, y, end_year, series) ==
    IF y > end_year THEN acc
    ELSE ChainYears(ChainYear(acc, y, series), y + 1, end_year, series)

\* The values document: without a series object for the indicator and the
\* country, or with one.
NoSeries == [has_series |-> FALSE, series |-> [y \in Years |-> Absent]]

ValuesDocs == {NoSeries} \cup { [has_series |-> TRUE, series |-> s] : s \in [Years -> YearEntries] }

\* The part of the function after the document is loaded.
Chain(doc, start_year, end_year) ==
    LET acc == ChainYears(ChainStart, start_year, end_year, doc.series)
    IN  IF ~doc.has_series THEN [ok |-> FALSE, err |-> "No data for indicator / country", acc |-> ChainStart]
        ELSE IF ~acc.latest_year.some
        THEN [ok |-> FALSE, err |-> "No numeric observations found", acc |-> acc]
        ELSE [ok |-> TRUE, err |-> "none", acc |-> acc]

(***************************************************************************)
(* run_sdmx and run_datamapper.                                            *)
(***************************************************************************)

LoadOf(res) == CHOOSE l \in Loads : l.res = res

\* One load of a run, start to end: what it returns and what it leaves behind.
\* Served from the cache, or fetched (the request may fail) and then written
\* to the cache on a best-effort basis (the write may fail).
LoadOutcomes(res, use_cache, dir) ==
    LET load  == LoadOf(res)
        entry == dir[load.file]
        reads == IF use_cache THEN 1 ELSE 0
    IN  IF LoadRead(load, use_cache, entry).some
        THEN { [ok |-> TRUE, fetches |-> 0, io |-> 1, dir |-> dir] }
        ELSE { [ok |-> FALSE, fetches |-> 1, io |-> reads, dir |-> dir] }
             \cup { [ok |-> TRUE, fetches |-> 1,
                     io |-> reads + (IF WritesAfterFetch(use_cache) THEN 1 ELSE 0),
                     dir |-> dir] }
             \cup { [ok |-> TRUE, fetches |-> 1, io |-> reads + 1,
                     dir |-> [dir EXCEPT ![load.file] = [exists |-> TRUE, data |-> Bytes(b)]]] :
                    b \in IF WritesAfterFetch(use_cache) THEN RemoteBodies(res) ELSE {} }

\* A cache directory that holds an entry for each of the four loads.
CacheWarm == [ f \in Files |-> [exists |-> TRUE, data |-> Bytes([ver |-> "a", items |-> 1])] ]

\* --start in SDMX mode.
SdmxStartInputs ==
    { <<"2", "0", "2", "0", "-", "0", "1">>, <<" ", "2", "0", "2", "0", "-", "0", "6">>, <<"2", "0", "2", "1", "-", "0", "9">>, <<"+", "2", "0", "2", "-", "0", "1">>, <<"2", "0", "2", "0", "1", "-", "5">>, <<"2", "0", "2", "0", "-", "1", "3">>, <<"2", "0", "2", "0", "-", "6">>, <<"2", "0", "2", "0">> }

\* --end in SDMX mode.
SdmxEndInputs ==
    { None, Some(<<" ">>), Some(<<"2", "0", "2", "0", "-", "0", "6">>), Some(<<"2", "0", "3", "0", "-", "0", "1">>), Some(<<"2", "0", "1", "9", "-", "1", "2">>),
      Some(<<"2", "0", "2", "0", "1", "-", "5">>), Some(<<"2", "0", "2", "0", "-", "1", "x">>) }

\* --start in DataMapper mode.
DmStartInputs == { <<"2", "0", "1", "9">>, <<"2", "0", "2", "0", "-", "0", "5">>, <<" ", "2", "0", "2", "1">>, <<"2", "0", "3", "0">>, <<"1", "7", "9", "9">>, <<"2", "0", "x", "1">>, <<>> }

\* --end in DataMapper mode.
DmEndInputs == { None, Some(<<"2", "0", "2", "0">>), Some(<<"2", "0", "2", "1", "-", "1", "2">>), Some(<<"2", "0", "3", "5">>), Some(<<"2", "0", "1", "8">>), Some(<<"x">>) }

\* The observations the extraction returns for the data document.
O(t, v) == [t |-> t, v |-> v]

ObsLists ==
    { <<>>,
      << O(P2020M01, 100) >>,
      << O(P2020M06, 125), O(P2020M01, 100) >>,
      << O(P2020M01, 100), O(P2021M01, 110) >>,
      << O(P2020M06, 100), O(P2021M01, 100) >> }

RunState(mode, start_input, end_arg, country_arg, use_cache) ==
    [ pc          |-> "start",    \* start, country, range, data, report, done, failed
      mode        |-> mode,
      start_input |-> start_input,
      end_input   |-> EndInput(end_arg),
      country_arg |-> country_arg,
      use_cache   |-> use_cache,
      amount      |-> 1000,
      start_ym    |-> <<>>,   end_ym        |-> <<>>,
      start_period |-> <<>>,  end_period    |-> <<>>,
      start_year  |-> 0,      end_year_used |-> 0,
      fetches     |-> 0,          \* requests sent to the remote
      io          |-> 0,          \* fs::read and fs::write calls on cache files
      err         |-> "none",
      picked      |-> NoResult,   \* SDMX: the start and the latest observation
      chain       |-> ChainStart, \* DataMapper: deflator, latest_year, yearly
      doc         |-> NoSeries,   \* DataMapper: the values document loaded
      divisors    |-> <<>>,       \* the right-hand sides of the divisions made
      real_now    |-> [n |-> 0, d |-> 1] ]

RunInit ==
    /\ \/ \E s \in SdmxStartInputs, e \in SdmxEndInputs, c \in {None, Some(<<"p", "o", "l">>)},
            u \in BOOLEAN :
            run = RunState("sdmx", s, e, c, u)
       \/ \E s \in DmStartInputs, e \in DmEndInputs, c \in {None, Some(<<"p", "o", "l">>), Some(<<"f", "r", "a">>)},
            u \in BOOLEAN :
            run = RunState("datamapper", s, e, c, u)
    /\ cache \in {CacheIdle, CacheWarm}
    /\ procs = [ p \in Procs |-> IdleProc ]
    /\ keyq = [pc |-> "idle"]
    /\ xml = [mode |-> "idle"]
    /\ per = [pc |-> "idle"]

Failed(msg) == [run EXCEPT !.pc = "failed", !.err = msg]

\* run_sdmx: let start_ym = parse_ym(&start_input)?
SdmxParseStart ==
    /\ run.pc = "start" /\ run.mode = "sdmx"
    /\ LET r == parse_ym(run.start_input)
       IN  run' = IF r.ok THEN [run EXCEPT !.pc = "country", !.start_ym = r.s]
                  ELSE Failed("Start must be YYYY-MM for SDMX mode")
    /\ UNCHANGED <<procs, cache, keyq, xml, per>>

\* run_sdmx, country selection: --country as given, or the codelist is loaded
\* and the user picks from it.
SdmxCountry ==
    /\ run.pc = "country" /\ run.mode = "sdmx"
    /\ IF run.country_arg.some
       THEN run' = [run EXCEPT !.pc = "range"] /\ UNCHANGED cache
       ELSE \E o \in LoadOutcomes("sdmx_codelist", run.use_cache, cache) :
              /\ run' = [(IF o.ok THEN [run EXCEPT !.pc = "range"]
                          ELSE Failed("SDMX codelist not loaded"))
                         EXCEPT !.fetches = @ + o.fetches, !.io = @ + o.io]
              /\ cache' = o.dir
    /\ UNCHANGED <<procs, keyq, xml, per>>

\* run_sdmx, date range: --end or the current month, clamped to the current
\* month, checked against the start, and both converted to SDMX periods.
SdmxRange ==
    /\ run.pc = "range" /\ run.mode = "sdmx"
    /\ LET e      == IF run.end_input.some THEN parse_ym(run.end_input.v)
                     ELSE [ok |-> TRUE, s |-> CurrentYm]
           end_ym == SdmxClamp(e.s, CurrentYm)
           sp     == ym_to_sdmx_period(run.start_ym)
           ep     == ym_to_sdmx_period(end_ym)
       IN  run' = IF ~e.ok THEN Failed("End must be YYYY-MM for SDMX mode")
                  ELSE IF StrLess(end_ym, run.start_ym)
                  THEN [Failed("--end must be >= start") EXCEPT !.end_ym = end_ym]
                  ELSE IF ~sp.ok \/ ~ep.ok
                  THEN [Failed("Expected YYYY-MM") EXCEPT !.end_ym = end_ym]
                  ELSE [run EXCEPT !.pc = "data", !.end_ym = end_ym,
                                   !.start_period = sp.s, !.end_period = ep.s]
    /\ UNCHANGED <<procs, cache, keyq, xml, per>>

\* run_sdmx: sdmx_fetch_cpi_start_and_latest.
SdmxFetch ==
    /\ run.pc = "data" /\ run.mode = "sdmx"
    /\ \E o \in LoadOutcomes("sdmx_data", run.use_cache, cache), obs \in ObsLists :
         LET f == ObsFinish(obs, run.start_period)
         IN  /\ run' = [(IF ~o.ok THEN Failed("SDMX data not loaded")
                         ELSE IF f.status = "err" THEN Failed(f.err)
                         ELSE [run EXCEPT !.pc = "report", !.picked = f.result])
                        EXCEPT !.fetches = @ + o.fetches, !.io = @ + o.io]
             /\ cache' = o.dir
    /\ UNCHANGED <<procs, keyq, xml, per>>

\* run_sdmx: ratio = cpi_start / cpi_latest, real_now = amount * ratio, and
\* the inflation factor cpi_latest / cpi_start of the report.
SdmxReport ==
    /\ run.pc = "report" /\ run.mode = "sdmx"
    /\ run' = [run EXCEPT !.pc = "done",
                          !.divisors = << [n |-> run.picked.latest.v, d |-> 1],
                                          [n |-> run.picked.start.v, d |-> 1] >>,
                          !.real_now = [n |-> run.amount * run.picked.start.v,
                                        d |-> run.picked.latest.v]]
    /\ UNCHANGED <<procs, cache, keyq, xml, per>>

\* (variant) the country list is loaded before the start year is parsed.
DmCountriesBeforeParseStart ==
    /\ run.pc = "start" /\ run.mode = "datamapper"
    /\ \E o \in LoadOutcomes("dm_countries", run.use_cache, cache) :
         LET r == parse_year_loose(run.start_input)
         IN  /\ run' = [(IF r.ok THEN [run EXCEPT !.pc = "country", !.start_year = r.v]
                         ELSE Failed("Start must be YYYY (or YYYY-MM) for DataMapper mode"))
                        EXCEPT !.fetches = @ + o.fetches, !.io = @ + o.io]
             /\ cache' = o.dir
    /\ UNCHANGED <<procs, keyq, xml, per>>

\* run_datamapper: let start_year = parse_year_loose(&start_input)?
DmParseStart ==
    /\ run.pc = "start" /\ run.mode = "datamapper"
    /\ LET r == parse_year_loose(run.start_input)
       IN  run' = IF r.ok THEN [run EXCEPT !.pc = "country", !.start_year = r.v]
                  ELSE Failed("Start must be YYYY (or YYYY-MM) for DataMapper mode")
    /\ UNCHANGED <<procs, cache, keyq, xml, per>>

\* run_datamapper: the country list is loaded; --country must be in it (the
\* list of the model holds POL), or the user picks from it.
DmCountry ==
    /\ run.pc = "country" /\ run.mode = "datamapper"
    /\ \E o \in LoadOutcomes("dm_countries", run.use_cache, cache) :
         /\ run' = [(IF ~o.ok THEN Failed("DataMapper countries not loaded")
                     ELSE IF run.country_arg.some
                             /\ ToUppercase(Trim(run.country_arg.v)) # <<"P", "O", "L">>
                     THEN Failed("Country code not found in DataMapper countries list")
                     ELSE [run EXCEPT !.pc = "range"])
                    EXCEPT !.fetches = @ + o.fetches, !.io = @ + o.io]
         /\ cache' = o.dir
    /\ UNCHANGED <<procs, keyq, xml, per>>

\* run_datamapper, year range: --end or the current year, clamped to the
\* current year and checked against the start year.
DmRange ==
    /\ run.pc = "range" /\ run.mode = "datamapper"
    /\ LET e   == IF run.end_input.some THEN parse_year_loose(run.end_input.v)
                  ELSE [ok |-> TRUE, v |-> CurrentYear]
           end == DmClamp(e.v, CurrentYear)
       IN  run' = IF ~e.ok THEN Failed("End must be YYYY (or YYYY-MM) for DataMapper mode")
                  ELSE IF end < run.start_year
                  THEN [Failed("--end must be >= start year") EXCEPT !.end_year_used = end]
                  ELSE [run EXCEPT !.pc = "data", !.end_year_used = end]
    /\ UNCHANGED <<procs, cache, keyq, xml, per>>

\* run_datamapper: datamapper_deflator_and_yearly_pcpipch.
DmFetch ==
    /\ run.pc = "data" /\ run.mode = "datamapper"
    /\ \E o \in LoadOutcomes("dm_values", run.use_cache, cache), doc \in ValuesDocs :
         LET c == Chain(doc, run.start_year, run.end_year_used)
         IN  /\ run' = [(IF ~o.ok THEN Failed("DataMapper values not loaded")
                         ELSE IF ~c.ok THEN [Failed(c.err) EXCEPT !.doc = doc]
                         ELSE [run EXCEPT !.pc = "report", !.doc = doc, !.chain = c.acc])
                        EXCEPT !.fetches = @ + o.fetches, !.io = @ + o.io]
             /\ cache' = o.dir
    /\ UNCHANGED <<procs, keyq, xml, per>>

\* run_datamapper: real_now = amount / deflator and
\* loss_pct = (1.0 - (1.0 / deflator)) * 100.0.
DmReport ==
    /\ run.pc = "report" /\ run.mode = "datamapper"
    /\ run' = [run EXCEPT !.pc = "done",
                          !.divisors = << run.chain.deflator, run.chain.deflator >>,
                          !.real_now = [n |-> run.amount * run.chain.deflator.d,
                                        d |-> run.chain.deflator.n]]
    /\ UNCHANGED <<procs, cache, keyq, xml, per>>

RunNext ==
    \/ SdmxParseStart \/ SdmxCountry \/ SdmxRange \/ SdmxFetch \/ SdmxReport
    \/ DmParseStart \/ DmCountry \/ DmRange \/ DmFetch \/ DmReport

SpecRun == RunInit /\ [][RunNext]_vars

(***************************************************************************)
(*                        CLAIMS ABOUT THE RUNS                            *)
(***************************************************************************)

StrictlyPositive(x) == x.n > 0 /\ x.d > 0

\* C11: in a successful run every division is by a strictly positive value;
\* in chain mode every factor 1 + pct/100 of the deflator is strictly positive
\* and so is the deflator.
C11_NoDivisionByZero ==
    run.pc = "done" =>
        /\ \A i \in 1..Len(run.divisors) : StrictlyPositive(run.divisors[i])
        /\ run.mode = "datamapper" =>
              /\ \A i \in 1..Len(run.chain.yearly) :
                    StrictlyPositive(Factor(run.chain.yearly[i].pct))
              /\ StrictlyPositive(run.chain.deflator)

\* The years of the requested range for which the series holds a number.
YearsWithData ==
    { y \in run.start_year..run.end_year_used : Get(run.doc.series, y).kind = "number" }

RECURSIVE ProductOver(_)
ProductOver(S) ==
    IF S = {} THEN One
    ELSE LET y == CHOOSE x \in S : TRUE
         IN  Times(Factor(Get(run.doc.series, y).pct), ProductOver(S \ {y}))

ChainErrors == {"No data for indicator / country", "No numeric observations found"}

\* C12: the rate sequence holds exactly the years of the range that have a
\* number in the series, in strictly ascending order and with the rate of the
\* series; the deflator is the product of 1 + pct/100 over those years;
\* latest_year is the greatest of them; and the operation fails exactly when
\* there is no such year.
C12_YearlyChain ==
    run.mode = "datamapper" =>
        /\ run.pc \in {"report", "done"} =>
              LET yearly == run.chain.yearly
              IN  /\ YearsWithData # {}
                  /\ { yearly[i].year : i \in 1..Len(yearly) } = YearsWithData
                  /\ \A i \in 1..(Len(yearly) - 1) : yearly[i].year < yearly[i + 1].year
                  /\ \A i \in 1..Len(yearly) :
                        yearly[i].pct = Get(run.doc.series, yearly[i].year).pct
                  /\ run.chain.deflator = ProductOver(YearsWithData)
                  /\ run.chain.latest_year.some
                  /\ run.chain.latest_year.v \in YearsWithData
                  /\ \A y \in YearsWithData : y <= run.chain.latest_year.v
        /\ (run.pc = "failed" /\ run.err \in ChainErrors) => YearsWithData = {}

C12_Witness ==
    /\ run.mode = "datamapper" /\ run.pc = "done"
    /\ Len(run.chain.yearly) = 2
    /\ run.chain.yearly[1].year + 1 < run.chain.yearly[2].year
    /\ Get(run.doc.series, run.chain.yearly[1].year + 1) = NotANumber
    /\ run.chain.yearly[1].pct = 10 /\ run.chain.yearly[2].pct = 0 - 5
    /\ run.chain.deflator = [n |-> 418, d |-> 400]

\* The month a text denotes that parse_ym accepts or returns, counted in
\* months, and the earlier of two such counts.
MonthOf(ym) ==
    LET parts == Split(Trim(ym), "-")
    IN  ParseI32(parts[1]).v * 12 + ParseU32(parts[2]).v

Earlier(a, b) == IF a < b THEN a ELSE b

\* The run has got past the parsing of --end.
Ranged ==
    \/ run.pc \in {"data", "report", "done"}
    \/ run.pc = "failed" /\ run.err \in {"--end must be >= start", "Expected YYYY-MM",
                                         "--end must be >= start year"}

RangeError ==
    run.pc = "failed" /\ run.err \in {"--end must be >= start", "--end must be >= start year"}

AtFetch == run.pc \in {"data", "report", "done"}

\* C13: in both modes the end period used is the earlier of the requested end
\* period (the current period when none is given) and the current period; a
\* run in which that period is before the start period fails with the range
\* error; and start <= end used <= current period in every run that gets to
\* the data fetch.
C13_EndClampedAndRangeChecked ==
    /\ (run.mode = "sdmx" /\ Ranged) =>
          LET requested == IF run.end_input.some THEN MonthOf(run.end_input.v)
                           ELSE MonthOf(CurrentYm)
              used      == Earlier(requested, MonthOf(CurrentYm))
          IN  /\ used < MonthOf(run.start_ym) => RangeError
              /\ AtFetch =>
                    /\ MonthOf(run.end_ym) = used
                    /\ MonthOf(run.start_ym) <= MonthOf(run.end_ym)
                    /\ MonthOf(run.end_ym) <= MonthOf(CurrentYm)
    /\ (run.mode = "datamapper" /\ Ranged) =>
          LET requested == IF run.end_input.some THEN parse_year_loose(run.end_input.v).v
                           ELSE CurrentYear
              used      == Earlier(requested, CurrentYear)
          IN  /\ used < run.start_year => RangeError
              /\ AtFetch =>
                    /\ run.end_year_used = used
                    /\ run.start_year <= run.end_year_used
                    /\ run.end_year_used <= CurrentYear

\* The start input of the run fails period parsing.
StartRejected ==
    \/ run.mode = "sdmx" /\ ~parse_ym(run.start_input).ok
    \/ run.mode = "datamapper" /\ ~parse_year_loose(run.start_input).ok

\* C17: a run whose start input fails period parsing never sends a request
\* and never reads or writes a cache file; its only step is the one that
\* fails, and that step leaves the cache directory as it was.
C17_StartParseFailureTouchesNothing ==
    /\ [](StartRejected =>
            /\ run.pc \in {"start", "failed"}
            /\ run.fetches = 0 /\ run.io = 0)
    /\ [][ StartRejected =>
             /\ run.pc = "start"
             /\ run'.pc = "failed"
             /\ run'.err \in {"Start must be YYYY-MM for SDMX mode",
                               "Start must be YYYY (or YYYY-MM) for DataMapper mode"}
             /\ cache' = cache ]_vars

C17_Witness ==
    /\ StartRejected /\ run.pc = "failed"
    /\ run.use_cache /\ ~run.country_arg.some
    /\ cache = CacheIdle

(***************************************************************************)
(*                    PART 5 - THE PERIOD FUNCTIONS                        *)
(***************************************************************************)

\* The texts given to parse_ym: optional blanks around a year part, a
\* separator and a month part.
PeriodTexts ==
    LET YearParts  == { <<"2", "0", "2", "0">>, <<"0", "0", "0", "0">>, <<"+", "2", "0", "2">>, <<"-", "2", "0", "2">>, <<"2", "0", "2", "0", "1">>, <<"2", "0", "2">>, <<"2">>, <<"2", "0", "x", "0">> }
        Separators == { <<"-">>, <<>>, <<"-", "-">>, <<"/">> }
        MonthParts == { <<"0", "1">>, <<"1", "2">>, <<"0", "0">>, <<"1", "3">>, <<"5">>, <<"+", "5">>, <<"-", "5">>, <<"0", "0", "0", "0", "5">>, <<"0", "x">> }
        Blanks     == { <<>>, <<" ">> }
    IN  { a \o y \o s \o m \o b :
            a \in Blanks, y \in YearParts, s \in Separators, m \in MonthParts, b \in Blanks }

PeriodInit ==
    /\ \E t \in PeriodTexts :
         per = [pc |-> "text", text |-> t, ym |-> StrErr, wire |-> StrErr, back |-> <<>>]
    /\ procs = [ p \in Procs |-> IdleProc ]
    /\ cache = CacheIdle
    /\ keyq = [pc |-> "idle"]
    /\ xml = [mode |-> "idle"]
    /\ run = [pc |-> "idle"]

\* parse_ym(text)
ParseYm ==
    /\ per.pc = "text"
    /\ per' = [per EXCEPT !.pc = IF parse_ym(per.text).ok THEN "parsed" ELSE "rejected",
                          !.ym = parse_ym(per.text)]
    /\ UNCHANGED <<procs, cache, keyq, xml, run>>

\* ym_to_sdmx_period(text), for a text parse_ym accepts.
ToSdmxPeriod ==
    /\ per.pc = "parsed"
    /\ per' = [per EXCEPT !.pc = IF ym_to_sdmx_period(per.text).ok THEN "wire" ELSE "rejected",
                          !.wire = ym_to_sdmx_period(per.text)]
    /\ UNCHANGED <<procs, cache, keyq, xml, run>>

\* sdmx_period_to_ym(token)
BackToYm ==
    /\ per.pc = "wire"
    /\ per' = [per EXCEPT !.pc = "back", !.back = sdmx_period_to_ym(per.wire.s)]
    /\ UNCHANGED <<procs, cache, keyq, xml, run>>

PeriodNext == ParseYm \/ ToSdmxPeriod \/ BackToYm

SpecPeriod == PeriodInit /\ [][PeriodNext]_vars

\* Exactly four decimal digits, a '-', and two decimal digits that denote a
\* month in 1..12.
IsYyyyMm(t) ==
    /\ Len(t) = 7
    /\ \A i \in {1, 2, 3, 4, 6, 7} : IsDigit(t[i])
    /\ t[5] = "-"
    /\ DigitsValue(SubSeq(t, 6, 7), 0) \in 1..12

\* C14: parse_ym accepts a text exactly when, once trimmed, it is four decimal
\* digits, a '-', and two decimal digits of a month in 1..12.
C14_AcceptsExactlyYyyyMm ==
    per.pc \in {"parsed", "rejected", "wire", "back"} =>
        (per.ym.ok <=> IsYyyyMm(Trim(per.text)))

\* C15: for a text parse_ym accepts, the wire token mapped back is the
\* 'YYYY-MM' text of the year and month that were parsed, and the wire token
\* differs from the 'YYYY-MM' text.
C15_RoundTrip ==
    /\ (per.pc \in {"parsed", "wire", "back"} /\ per.wire.ok) =>
          /\ per.wire.s # per.ym.s
          /\ per.wire.s # Trim(per.text)
    /\ per.pc = "back" =>
          /\ IsYyyyMm(per.back)
          /\ MonthOf(per.back) = MonthOf(per.text)
    /\ per.pc = "rejected" => ~per.ym.ok

====
